---- MODULE Spec2Model ----
(***************************************************************************)
(* Model of aliyunCDTcheck.py: one run of the traffic check.               *)
(*                                                                         *)
(*   module import (lines 11-14)  ->  main: load_config()                  *)
(*     -> check_traffic: get_traffic_gb()  (one awaited API call)          *)
(*     -> comparison with the threshold, log lines                         *)
(*     -> send_feishu_alert()              (at most one awaited POST)      *)
(*                                                                         *)
(* The process environment, the config file, the answer of the traffic     *)
(* API and the answer of the webhook are the inputs of the run.            *)
(*                                                                         *)
(* Python values that may come out of the JSON file are represented by     *)
(* records [t, s, n]: a string is its sequence of characters, a float is   *)
(* counted in halves (n = 3 is 1.5).                                       *)
(***************************************************************************)
EXTENDS Integers, Sequences, FiniteSets, TLC

VARIABLES
    pc,                 \* position of the run
    env,                \* the process environment (read at import)
    file,               \* aliyunCDTconfig.json as found on disk
    access_key_id,      \* global _access_key_id
    access_key_secret,  \* global _access_key_secret
    max_traffic_gb,     \* global _max_traffic_gb (always an int)
    feishu_webhook_url, \* global _feishu_webhook_url
    api_calls,          \* list_cdt_internet_traffic_async requests issued
    response,           \* what the API call produced
    traffic_gb,         \* value returned by get_traffic_gb, as num/den
    is_exceeded,        \* branch taken by check_traffic
    message,            \* the card built by send_feishu_alert
    posts,              \* session.post requests issued
    post_outcome,       \* what the POST produced
    alert_result,       \* return value of send_feishu_alert
    check_result,       \* return value of check_traffic
    log,                \* lines written by write_log, in order
    raised,             \* the unhandled exception that ended the run, if any
    exit_code           \* process exit status

vars == <<pc, env, file, access_key_id, access_key_secret, max_traffic_gb,
          feishu_webhook_url, api_calls, response, traffic_gb, is_exceeded,
          message, posts, post_outcome, alert_result, check_result, log,
          raised, exit_code>>

----------------------------------------------------------------------------
(* Bounds *)

MaxRecords == 2

----------------------------------------------------------------------------
(* Python values *)

Str(s) == [t |-> "str", s |-> s, n |-> 0]
IntV(n) == [t |-> "int", s |-> <<>>, n |-> n]
FloatV(h) == [t |-> "float", s |-> <<>>, n |-> h]
Null == [t |-> "null", s |-> <<>>, n |-> 0]

\* absent byte count of a traffic detail record (byte counts are >= 0)
None == -1

Digits == <<"0", "1", "2", "3", "4", "5", "6", "7", "8", "9">>

IsDigit(c) == \E i \in DOMAIN Digits : Digits[i] = c

DigitVal(c) == (CHOOSE i \in DOMAIN Digits : Digits[i] = c) - 1

RECURSIVE DigitsVal(_)
DigitsVal(s) ==
    IF s = <<>> THEN 0
    ELSE 10 * DigitsVal(SubSeq(s, 1, Len(s) - 1)) + DigitVal(s[Len(s)])

AllDigits(s) == Len(s) > 0 /\ \A i \in DOMAIN s : IsDigit(s[i])

\* int("...") on a string made of sign, digit and other characters
ParseInt(s) ==
    IF AllDigits(s) THEN [ok |-> TRUE, n |-> DigitsVal(s), exc |-> "none"]
    ELSE IF Len(s) > 1 /\ s[1] = "-" /\ AllDigits(Tail(s))
         THEN [ok |-> TRUE, n |-> 0 - DigitsVal(Tail(s)), exc |-> "none"]
    ELSE IF Len(s) > 1 /\ s[1] = "+" /\ AllDigits(Tail(s))
         THEN [ok |-> TRUE, n |-> DigitsVal(Tail(s)), exc |-> "none"]
    ELSE [ok |-> FALSE, n |-> 0, exc |-> "ValueError"]

\* int(float): truncation toward zero; the float is h halves
TruncHalves(h) == IF h >= 0 THEN h \div 2 ELSE 0 - ((0 - h) \div 2)

\* int(v)
PyInt(v) ==
    CASE v.t = "int" -> [ok |-> TRUE, n |-> v.n, exc |-> "none"]
      [] v.t = "float" -> [ok |-> TRUE, n |-> TruncHalves(v.n), exc |-> "none"]
      [] v.t = "str" -> ParseInt(v.s)
      [] OTHER -> [ok |-> FALSE, n |-> 0, exc |-> "TypeError"]

\* mutation: `is None` in place of `not`
TruthyNotNone(v) == v.t # "null"

\* truth value of v, as tested by `not v`
Truthy(v) ==
    CASE v.t = "str" -> v.s # <<>>
      [] v.t = "int" -> v.n # 0
      [] v.t = "float" -> v.n # 0
      [] OTHER -> FALSE

----------------------------------------------------------------------------
(* Inputs of a run *)

EnvCredentialValues == {Null, Str(<<"a", "k">>)}
EnvThresholdValues ==
    {Null, Str(<<"0">>), Str(<<"1">>), Str(<<"-", "1">>), Str(<<"x">>)}
EnvWebhookValues == {Null, Str(<<"u">>)}

EnvSpace ==
    [ALIYUN_ACCESS_KEY_ID : EnvCredentialValues,
     ALIYUN_ACCESS_KEY_SECRET : EnvCredentialValues,
     MAX_TRAFFIC_GB : EnvThresholdValues,
     FEISHU_WEBHOOK_URL : EnvWebhookValues]

\* os.getenv(name, default); Null stands for an unset variable
Getenv(e, name, default) == IF e[name] = Null THEN default ELSE e[name]

DefaultThreshold == Str(<<"2", "0">>)

ConfigKeys ==
    {"access_key_id", "access_key_secret", "max_traffic_gb", "feishu_webhook_url"}

FileValues(k) ==
    CASE k = "access_key_id" -> {Str(<<"f", "k">>)}
      [] k = "access_key_secret" -> {Str(<<"f", "s">>)}
      [] k = "max_traffic_gb" ->
            {IntV(-1), IntV(0), IntV(2), FloatV(3), FloatV(-1),
             Str(<<"1">>), Str(<<"1", ".", "5">>), Null}
      [] k = "feishu_webhook_url" -> {Str(<<>>), Str(<<"w">>), Null}

AllFileValues == UNION {FileValues(k) : k \in ConfigKeys}

ConfigObjects ==
    UNION {{f \in [D -> AllFileValues] : \A k \in D : f[k] \in FileValues(k)} :
           D \in SUBSET ConfigKeys}

NoObject == [k \in {} |-> Null]

FileSpace ==
    {[kind |-> k, obj |-> NoObject] :
        k \in {"absent", "unreadable", "badjson", "nonobject"}}
    \cup {[kind |-> "object", obj |-> o] : o \in ConfigObjects}

----------------------------------------------------------------------------
(* Module import, lines 11-14 *)

EnvThreshold(e) == PyInt(Getenv(e, "MAX_TRAFFIC_GB", DefaultThreshold))

Zero == [num |-> 0, den |-> 1]

NoResponse ==
    [kind |-> "none", exc |-> "none", status |-> 0, body_ok |-> TRUE,
     traffic_details |-> <<>>]

NoMessage == [title |-> "none", template |-> "none", status_text |-> "none"]

NoPost == [kind |-> "none", status |-> 0]

NotRaised == [exc |-> "none", in |-> "none"]

\* A run that gets to main(): the module-level int() of line 13 succeeded.
Init ==
    /\ env \in EnvSpace
    /\ EnvThreshold(env).ok
    /\ file \in FileSpace
    /\ access_key_id = Getenv(env, "ALIYUN_ACCESS_KEY_ID", Str(<<>>))
    /\ access_key_secret = Getenv(env, "ALIYUN_ACCESS_KEY_SECRET", Str(<<>>))
    /\ max_traffic_gb = EnvThreshold(env).n
    /\ feishu_webhook_url = Getenv(env, "FEISHU_WEBHOOK_URL", Str(<<>>))
    /\ pc = "load_config"
    /\ api_calls = 0
    /\ response = NoResponse
    /\ traffic_gb = Zero
    /\ is_exceeded = FALSE
    /\ message = NoMessage
    /\ posts = 0
    /\ post_outcome = NoPost
    /\ alert_result = "pending"
    /\ check_result = "pending"
    /\ log = <<>>
    /\ raised = NotRaised
    /\ exit_code = -1

----------------------------------------------------------------------------
(* load_config, lines 16-27 *)

\* open() and json.load(): the exception they raise, if any
OpenAndParse(f) ==
    CASE f.kind = "absent" -> "FileNotFoundError"
      [] f.kind = "unreadable" -> "PermissionError"
      [] f.kind = "badjson" -> "JSONDecodeError"
      [] OTHER -> "none"

\* mutation: `config.get(key) or default`
DictGetOr(config, key, default) ==
    IF key \in DOMAIN config /\ Truthy(config[key]) THEN config[key] ELSE default

\* config.get(key, default)
DictGet(config, key, default) ==
    IF key \in DOMAIN config THEN config[key] ELSE default

\* mutation: `except Exception`
SuppressedAny(exc) == TRUE

\* the except clause of load_config
Suppressed(exc) == exc = "FileNotFoundError"

\* The process dies with an unhandled exception: asyncio.run re-raises it.
Crash(exc, where) ==
    /\ pc' = "crashed"
    /\ raised' = [exc |-> exc, in |-> where]
    /\ exit_code' = 1

LoadConfigRaise(exc) ==
    IF Suppressed(exc)
    THEN /\ pc' = "get_traffic_gb"
         /\ UNCHANGED <<raised, exit_code>>
    ELSE Crash(exc, "load_config")

load_config ==
    /\ pc = "load_config"
    /\ LET exc == OpenAndParse(file)
           conv == PyInt(DictGet(file.obj, "max_traffic_gb", IntV(max_traffic_gb)))
       IN  IF exc # "none"
           THEN /\ LoadConfigRaise(exc)
                /\ UNCHANGED <<access_key_id, access_key_secret,
                               max_traffic_gb, feishu_webhook_url>>
           ELSE IF file.kind = "nonobject"
           THEN \* line 22: config.get on a list, number or string
                /\ LoadConfigRaise("AttributeError")
                /\ UNCHANGED <<access_key_id, access_key_secret,
                               max_traffic_gb, feishu_webhook_url>>
           ELSE /\ access_key_id' =
                       DictGet(file.obj, "access_key_id", access_key_id)
                /\ access_key_secret' =
                       DictGet(file.obj, "access_key_secret", access_key_secret)
                /\ IF conv.ok
                   THEN /\ max_traffic_gb' = conv.n
                        /\ feishu_webhook_url' =
                               DictGet(file.obj, "feishu_webhook_url",
                                       feishu_webhook_url)
                        /\ pc' = "get_traffic_gb"
                        /\ UNCHANGED <<raised, exit_code>>
                   ELSE \* line 24 raises after lines 22-23 have assigned
                        /\ LoadConfigRaise(conv.exc)
                        /\ UNCHANGED <<max_traffic_gb, feishu_webhook_url>>
    /\ UNCHANGED <<env, file, api_calls, response, traffic_gb, is_exceeded,
                   message, posts, post_outcome, alert_result, check_result,
                   log>>

----------------------------------------------------------------------------
(* get_traffic_gb, lines 33-53 *)

GiB == 1073741824

TrafficValues == {None, 0, GiB \div 2}

DetailLists ==
    UNION {[1..n -> TrafficValues] : n \in 0..MaxRecords}

\* What the awaited list_cdt_internet_traffic_async call can produce: an
\* exception, or a response.  body_ok = FALSE is a 200 response whose
\* body.traffic_details cannot be iterated.
ApiOutcomes ==
    {[kind |-> "raise", exc |-> e, status |-> 0, body_ok |-> TRUE,
      traffic_details |-> <<>>] : e \in {"transport", "auth"}}
    \cup {[kind |-> "response", exc |-> "none", status |-> 500,
           body_ok |-> TRUE, traffic_details |-> <<>>]}
    \cup {[kind |-> "response", exc |-> "none", status |-> 200,
           body_ok |-> FALSE, traffic_details |-> <<>>]}
    \cup {[kind |-> "response", exc |-> "none", status |-> 200,
           body_ok |-> TRUE, traffic_details |-> d] : d \in DetailLists}

\* lines 35-44: the client is built outside the try block, then the request
\* is issued and awaited.
get_traffic_gb_call ==
    /\ pc = "get_traffic_gb"
    /\ \E built \in BOOLEAN :
          IF built
          THEN /\ api_calls' = api_calls + 1
               /\ pc' = "await_list_cdt_internet_traffic"
               /\ UNCHANGED <<raised, exit_code>>
          ELSE /\ Crash("ClientError", "get_traffic_gb")
               /\ UNCHANGED api_calls
    /\ UNCHANGED <<env, file, access_key_id, access_key_secret,
                   max_traffic_gb, feishu_webhook_url, response, traffic_gb,
                   is_exceeded, message, posts, post_outcome, alert_result,
                   check_result, log>>

\* mutation: the sum stops at the first absent byte count
RECURSIVE SumTrafficUntilNone(_)
SumTrafficUntilNone(details) ==
    IF details = <<>> \/ Head(details) = None THEN 0
    ELSE Head(details) + SumTrafficUntilNone(Tail(details))

\* lines 46-49: sum(item.traffic for item in ... if item.traffic is not None)
RECURSIVE SumTraffic(_)
SumTraffic(details) ==
    IF details = <<>> THEN 0
    ELSE IF Head(details) # None
         THEN Head(details) + SumTraffic(Tail(details))
         ELSE SumTraffic(Tail(details))

\* lines 44-53 after the await: the returned value and whether the except
\* clause wrote its log line
GetTrafficResult(r) ==
    IF r.kind = "raise"
    THEN [value |-> Zero, logged |-> TRUE]
    ELSE IF r.status = 200
    THEN IF r.body_ok
         THEN [value |-> [num |-> SumTraffic(r.traffic_details), den |-> GiB],
               logged |-> FALSE]
         ELSE [value |-> Zero, logged |-> TRUE]
    ELSE [value |-> Zero, logged |-> FALSE]

get_traffic_gb_resume ==
    /\ pc = "await_list_cdt_internet_traffic"
    /\ \E r \in ApiOutcomes :
          /\ response' = r
          /\ traffic_gb' = GetTrafficResult(r).value
          /\ log' = IF GetTrafficResult(r).logged
                    THEN Append(log, "fetch_failed")
                    ELSE log
    /\ pc' = "check_traffic"
    /\ UNCHANGED <<env, file, access_key_id, access_key_secret,
                   max_traffic_gb, feishu_webhook_url, api_calls, is_exceeded,
                   message, posts, post_outcome, alert_result, check_result,
                   raised, exit_code>>

----------------------------------------------------------------------------
(* check_traffic, lines 55-69 *)

\* mutation: >= in place of >
IsExceededOrEqual(traffic, max) ==
    traffic.num \div traffic.den >= max

\* line 60: traffic_gb > _max_traffic_gb, for traffic = num/den >= 0
IsExceeded(traffic, max) ==
    LET q == traffic.num \div traffic.den
        r == traffic.num % traffic.den
    IN  q > max \/ (q = max /\ r > 0)

\* lines 58-61 and 66: the log lines and the branch
check_traffic ==
    /\ pc = "check_traffic"
    /\ is_exceeded' = IsExceeded(traffic_gb, max_traffic_gb)
    /\ log' = log \o <<"current_traffic",
                      IF IsExceeded(traffic_gb, max_traffic_gb)
                      THEN "exceeded" ELSE "normal">>
    /\ pc' = "send_feishu_alert"
    /\ UNCHANGED <<env, file, access_key_id, access_key_secret,
                   max_traffic_gb, feishu_webhook_url, api_calls, response,
                   traffic_gb, message, posts, post_outcome, alert_result,
                   check_result, raised, exit_code>>

\* send_feishu_alert has returned: check_traffic returns (lines 64, 69),
\* main returns and the process exits
Return(result) ==
    /\ alert_result' = result
    /\ check_result' = IF is_exceeded THEN "False" ELSE "True"
    /\ pc' = "done"
    /\ exit_code' = 0

----------------------------------------------------------------------------
(* send_feishu_alert, lines 71-125 *)

\* lines 79-86
BuildMessage(exceeded) ==
    IF exceeded
    THEN [title |-> "alert_title", template |-> "red",
          status_text |-> "over_threshold"]
    ELSE [title |-> "normal_title", template |-> "green",
          status_text |-> "under_threshold"]

\* line 100: (traffic_gb/max_traffic_gb)*100 raises ZeroDivisionError
ContentRaises(max) == max = 0

\* mutation: any 2xx status counts as success
PostSucceeded2xx(status) == status \div 100 = 2

\* line 116
PostSucceeded(status) == status = 200

PostOutcomes ==
    {[kind |-> "raise", status |-> 0]}
    \cup {[kind |-> "response", status |-> st] : st \in {200, 204, 500}}

\* lines 73-115, up to the awaited POST
send_feishu_alert_call ==
    /\ pc = "send_feishu_alert"
    /\ IF ~Truthy(feishu_webhook_url)
       THEN /\ log' = Append(log, "webhook_not_configured")
            /\ Return("False")
            /\ UNCHANGED <<message, posts>>
       ELSE IF ContentRaises(max_traffic_gb)
       THEN /\ log' = Append(log, "notify_error")
            /\ Return("False")
            /\ UNCHANGED <<message, posts>>
       ELSE /\ message' = BuildMessage(is_exceeded)
            /\ posts' = posts + 1
            /\ pc' = "await_post"
            /\ UNCHANGED <<log, alert_result, check_result, exit_code>>
    /\ UNCHANGED <<env, file, access_key_id, access_key_secret,
                   max_traffic_gb, feishu_webhook_url, api_calls, response,
                   traffic_gb, is_exceeded, post_outcome, raised>>

\* lines 115-125, after the await
send_feishu_alert_resume ==
    /\ pc = "await_post"
    /\ \E o \in PostOutcomes :
          /\ post_outcome' = o
          /\ IF o.kind = "raise"
             THEN /\ log' = Append(log, "notify_error")
                  /\ Return("False")
             ELSE IF PostSucceeded(o.status)
             THEN /\ log' = Append(log, "notify_sent")
                  /\ Return("True")
             ELSE /\ log' = Append(log, "notify_failed_status")
                  /\ Return("False")
    /\ UNCHANGED <<env, file, access_key_id, access_key_secret,
                   max_traffic_gb, feishu_webhook_url, api_calls, response,
                   traffic_gb, is_exceeded, message, posts, raised>>

----------------------------------------------------------------------------

Next ==
    \/ load_config
    \/ get_traffic_gb_call
    \/ get_traffic_gb_resume
    \/ check_traffic
    \/ send_feishu_alert_call
    \/ send_feishu_alert_resume

Spec == Init /\ [][Next]_vars

----------------------------------------------------------------------------
(* Properties *)

Logged(line) == \E i \in DOMAIN log : log[i] = line

FetchReturned == pc \in {"check_traffic", "send_feishu_alert", "await_post", "done"}

AlertCalled == pc \in {"await_post", "done"}

MessageBuilt == message # NoMessage

\* C1: every run whose configuration loading succeeded reaches the terminal
\* state with exit status 0; no failure in the FETCH or NOTIFY stage aborts
\* it.  As a state predicate: a run only ever dies inside load_config.
C1_NoAbortAfterLoad ==
    /\ pc = "crashed" => raised.in = "load_config"
    /\ exit_code # -1 /\ raised.in # "load_config" => exit_code = 0

\* C2: for a thrown transport error, a thrown authentication error and a
\* response whose status is not 200, get_traffic_gb writes an error log line
\* and returns exactly 0, and the run goes on to the decision stage.
C2_FetchFailureLoggedAndZero ==
    (/\ response.kind # "none"
     /\ \/ response.kind = "raise" /\ response.exc \in {"transport", "auth"}
        \/ response.kind = "response" /\ response.status # 200)
    => /\ Logged("fetch_failed")
       /\ traffic_gb = Zero
       /\ FetchReturned

\* C3: fail-open.  In every run in which the traffic fetch fails, whatever
\* threshold the loader produced, no exceeded line is logged and the
\* notification, if one is built, has the normal title and the green colour.
C3_FetchFailed ==
    /\ response.kind # "none"
    /\ ~(response.kind = "response" /\ response.status = 200 /\ response.body_ok)

C3_FailOpen ==
    C3_FetchFailed
    => /\ ~Logged("exceeded")
       /\ ~is_exceeded
       /\ MessageBuilt =>
             message.title = "normal_title" /\ message.template = "green"

\* m > t for m = num/den >= 0 and an integer t, stated as not (m <= t)
C4_Above(m, t) ==
    ~(\/ m.num \div m.den < t
      \/ m.num \div m.den = t /\ m.num = t * m.den)

\* C4: usage is treated as exceeded iff measured > threshold (equal is not
\* exceeded); the notification built has the alert title with red exactly
\* when exceeded and the normal title with green otherwise.
C4_ExceededIffAbove ==
    /\ pc \in {"send_feishu_alert", "await_post", "done"}
       => /\ is_exceeded <=> C4_Above(traffic_gb, max_traffic_gb)
          /\ Logged("exceeded") <=> C4_Above(traffic_gb, max_traffic_gb)
          /\ Logged("normal") <=> ~C4_Above(traffic_gb, max_traffic_gb)
    /\ MessageBuilt
       => IF C4_Above(traffic_gb, max_traffic_gb)
          THEN message.title = "alert_title" /\ message.template = "red"
          ELSE message.title = "normal_title" /\ message.template = "green"

\* measured usage exactly equal to the threshold: 1 GiB against 1 GB
C4_Witness ==
    /\ pc = "done"
    /\ max_traffic_gb = 1
    /\ traffic_gb = [num |-> GiB, den |-> GiB]
    /\ ~is_exceeded
    /\ message.title = "normal_title" /\ message.template = "green"

\* C5: a run that reaches NOTIFY with a non-empty webhook_url issues exactly
\* one POST: never zero, whatever the measured value and the threshold, and
\* never a second one.
C5_ExactlyOnePost ==
    /\ posts <= 1
    /\ AlertCalled /\ feishu_webhook_url.t = "str" /\ feishu_webhook_url.s # <<>>
       => posts = 1

\* C6: with an empty webhook_url send_feishu_alert issues no network call,
\* logs that no notification can be sent and returns false; the run still
\* completes normally.
C6_EmptyWebhookNoCall ==
    feishu_webhook_url = Str(<<>>)
    => /\ posts = 0
       /\ pc # "await_post"
       /\ pc = "done"
          => /\ Logged("webhook_not_configured")
             /\ alert_result = "False"
             /\ post_outcome = NoPost
             /\ exit_code = 0

C6_Witness ==
    /\ pc = "done"
    /\ feishu_webhook_url = Str(<<>>)
    /\ alert_result = "False"
    /\ posts = 0
    /\ exit_code = 0

\* C7: send_feishu_alert returns true iff a POST was issued and its status
\* was 200; any other status, a thrown transport error and a failure while
\* building the message are logged and give false; there is no retry.
C7_TrueIffPost200 ==
    /\ posts <= 1
    /\ pc = "done"
       => /\ alert_result = "True"
             <=> /\ posts = 1
                 /\ post_outcome.kind = "response"
                 /\ post_outcome.status = 200
          /\ alert_result = "True" => log[Len(log)] = "notify_sent"
          /\ post_outcome.kind = "response" /\ post_outcome.status # 200
             => /\ alert_result = "False"
                /\ log[Len(log)] = "notify_failed_status"
          /\ post_outcome.kind = "raise"
             => alert_result = "False" /\ log[Len(log)] = "notify_error"
          /\ Truthy(feishu_webhook_url) /\ posts = 0
             => alert_result = "False" /\ log[Len(log)] = "notify_error"

\* a 2xx status other than 200 is a failure
C7_Witness ==
    /\ pc = "done"
    /\ posts = 1
    /\ post_outcome = [kind |-> "response", status |-> 204]
    /\ alert_result = "False"

\* the four settings as values, and what the module import gave them
Setting(k) ==
    CASE k = "access_key_id" -> access_key_id
      [] k = "access_key_secret" -> access_key_secret
      [] k = "max_traffic_gb" -> IntV(max_traffic_gb)
      [] k = "feishu_webhook_url" -> feishu_webhook_url

EnvSetting(k) ==
    CASE k = "access_key_id" -> Getenv(env, "ALIYUN_ACCESS_KEY_ID", Str(<<>>))
      [] k = "access_key_secret" ->
            Getenv(env, "ALIYUN_ACCESS_KEY_SECRET", Str(<<>>))
      [] k = "max_traffic_gb" -> IntV(EnvThreshold(env).n)
      [] k = "feishu_webhook_url" -> Getenv(env, "FEISHU_WEBHOOK_URL", Str(<<>>))

LoadReturned == pc # "load_config" /\ raised.in # "load_config"

\* C8 as stated: after load_config, each key present in a well-formed file
\* gives its setting the file's value, each absent key leaves the
\* environment value; an absent file changes nothing and raises nothing.
C8_FileValueTaken ==
    /\ file.kind = "absent" /\ pc # "load_config"
       => LoadReturned /\ \A k \in ConfigKeys : Setting(k) = EnvSetting(k)
    /\ file.kind = "object" /\ LoadReturned
       => \A k \in ConfigKeys :
             Setting(k) = IF k \in DOMAIN file.obj
                          THEN file.obj[k] ELSE EnvSetting(k)

\* C8 amended: the same, except that max_traffic_gb takes int(file value)
\* (a float truncated toward zero, a numeric string parsed).
C8_FileValueTakenAsInt ==
    /\ file.kind = "absent" /\ pc # "load_config"
       => LoadReturned /\ \A k \in ConfigKeys : Setting(k) = EnvSetting(k)
    /\ file.kind = "object" /\ LoadReturned
       => \A k \in ConfigKeys :
             Setting(k) = IF k \notin DOMAIN file.obj THEN EnvSetting(k)
                          ELSE IF k = "max_traffic_gb"
                          THEN IntV(PyInt(file.obj[k]).n)
                          ELSE file.obj[k]

\* only the threshold is in the file, as 1.5; the environment sets the rest
C8_Witness ==
    /\ pc = "get_traffic_gb"
    /\ file.kind = "object"
    /\ DOMAIN file.obj = {"max_traffic_gb"}
    /\ file.obj["max_traffic_gb"] = FloatV(3)
    /\ max_traffic_gb = 1
    /\ env.MAX_TRAFFIC_GB = Str(<<"0">>)
    /\ access_key_id = Str(<<"a", "k">>)
    /\ feishu_webhook_url = Str(<<"u">>)

\* the byte counts that are present, added up index by index
RECURSIVE C9_SumOver(_, _)
C9_SumOver(d, S) ==
    IF S = {} THEN 0
    ELSE LET i == CHOOSE j \in S : TRUE
         IN  d[i] + C9_SumOver(d, S \ {i})

C9_Present(d) == {i \in DOMAIN d : d[i] # None}

\* C9: on a 200 response the total converted to gigabytes is the sum of the
\* byte counts of exactly the records whose byte count is present; zero
\* counts take part, an empty or all-absent list totals 0.
C9_TotalIsSumOfPresent ==
    (FetchReturned /\ response.kind = "response" /\ response.status = 200
     /\ response.body_ok)
    => /\ traffic_gb.den = GiB
       /\ traffic_gb.num =
             C9_SumOver(response.traffic_details,
                        C9_Present(response.traffic_details))
       /\ C9_Present(response.traffic_details) = {} => traffic_gb.num = 0

C9_Witness ==
    /\ FetchReturned
    /\ response.status = 200
    /\ response.traffic_details = <<None, GiB \div 2>>
    /\ traffic_gb = [num |-> GiB \div 2, den |-> GiB]

C10_Unloadable ==
    \/ file.kind = "badjson"
    \/ /\ file.kind = "object"
       /\ "max_traffic_gb" \in DOMAIN file.obj
       /\ ~PyInt(file.obj["max_traffic_gb"]).ok

\* C10: when the config file exists but does not parse, or its
\* max_traffic_gb cannot be converted to an integer, the run aborts inside
\* load_config with an unhandled error; neither the API call nor the POST is
\* issued and the run never goes on with the default settings.
C10_UnloadableFileAborts ==
    C10_Unloadable
    => /\ pc \in {"load_config", "crashed"}
       /\ api_calls = 0
       /\ posts = 0
       /\ pc = "crashed"
          => raised.in = "load_config" /\ raised.exc # "none" /\ exit_code = 1

C10_Witness ==
    /\ pc = "crashed"
    /\ file.kind = "badjson"
    /\ raised = [exc |-> "JSONDecodeError", in |-> "load_config"]
    /\ api_calls = 0

====
